---- MODULE Spec2Model ----
(***************************************************************************)
(* Model of index_precision_fix.py: the truncation-safe adjustment solver  *)
(* calculate_safe_adjustment and the per-sheet reconciliation loop that    *)
(* calls it.                                                               *)
(*                                                                         *)
(* The solver computes with decimal.Decimal under getcontext().prec = 50.  *)
(* A Decimal is modelled as the triple the library keeps: a sign, a        *)
(* coefficient and an exponent, value = (-1)^sign * coef * 10^exp.  The    *)
(* coefficient is an unbounded natural number, held here as its sequence   *)
(* of decimal digits, least significant digit first, the empty sequence    *)
(* for zero.  Every arithmetic operation rounds its exact result to prec   *)
(* significant digits (ROUND_HALF_EVEN), as the context does.              *)
(***************************************************************************)
EXTENDS Integers, Sequences, FiniteSets, TLC

\* ---------------------------------------------------------------------
\* Program constants
\* ---------------------------------------------------------------------
prec == 50

DECIMAL_PLACES == 13

\* ---------------------------------------------------------------------
\* Natural numbers of any size: digit sequences, least significant first
\* ---------------------------------------------------------------------
Abs(n) == IF n < 0 THEN -n ELSE n

Min(a, b) == IF a < b THEN a ELSE b

Max(a, b) == IF a > b THEN a ELSE b

Zeros(k) == [i \in 1..k |-> 0]

\* The digit of weight 10^(i-1), zero past the end
Dig(a, i) == IF i <= Len(a) THEN a[i] ELSE 0

\* The index of the most significant nonzero digit, 0 for zero
Top(a) ==
    IF \A i \in 1..Len(a) : a[i] = 0 THEN 0
    ELSE CHOOSE i \in 1..Len(a) : a[i] # 0 /\ \A j \in (i + 1)..Len(a) : a[j] = 0

\* Without leading zeros
Norm(a) == SubSeq(a, 1, Top(a))

RECURSIVE NatD(_)
NatD(n) == IF n = 0 THEN <<>> ELSE <<n % 10>> \o NatD(n \div 10)

RECURSIVE NatVal(_)
NatVal(a) == IF a = <<>> THEN 0 ELSE Head(a) + 10 * NatVal(Tail(a))

\* Digits lo..hi of a + b with carry c into digit lo: the carry chain is
\* split in halves, the carry out of the low half feeding the high half
RECURSIVE AddR(_, _, _, _, _)
AddR(a, b, lo, hi, c) ==
    IF lo > hi THEN [d |-> <<>>, c |-> c]
    ELSE IF lo = hi
    THEN [d |-> <<(Dig(a, lo) + Dig(b, lo) + c) % 10>>,
          c |-> (Dig(a, lo) + Dig(b, lo) + c) \div 10]
    ELSE LET alow  == AddR(a, b, lo, (lo + hi) \div 2, c)
             ahigh == AddR(a, b, (lo + hi) \div 2 + 1, hi, alow.c)
         IN  [d |-> alow.d \o ahigh.d, c |-> ahigh.c]

NatAdd(a, b) ==
    LET asum == AddR(a, b, 1, Max(Len(a), Len(b)), 0)
    IN  IF asum.c = 0 THEN asum.d ELSE Append(asum.d, asum.c)

\* Digits lo..hi of a - b with borrow c from digit lo
RECURSIVE SubR(_, _, _, _, _)
SubR(a, b, lo, hi, c) ==
    IF lo > hi THEN [d |-> <<>>, c |-> c]
    ELSE IF lo = hi
    THEN [d |-> <<(Dig(a, lo) - Dig(b, lo) - c + 10) % 10>>,
          c |-> IF Dig(a, lo) - Dig(b, lo) - c < 0 THEN 1 ELSE 0]
    ELSE LET slow  == SubR(a, b, lo, (lo + hi) \div 2, c)
             shigh == SubR(a, b, (lo + hi) \div 2 + 1, hi, slow.c)
         IN  [d |-> slow.d \o shigh.d, c |-> shigh.c]

\* a - b for a >= b
NatSub(a, b) == Norm(SubR(a, b, 1, Len(a), 0).d)

\* Digits lo..hi of a * k with carry c into digit lo, for a small k
RECURSIVE MulR(_, _, _, _, _)
MulR(a, k, lo, hi, c) ==
    IF lo > hi THEN [d |-> <<>>, c |-> c]
    ELSE IF lo = hi
    THEN [d |-> <<(a[lo] * k + c) % 10>>, c |-> (a[lo] * k + c) \div 10]
    ELSE LET mlow  == MulR(a, k, lo, (lo + hi) \div 2, c)
             mhigh == MulR(a, k, (lo + hi) \div 2 + 1, hi, mlow.c)
         IN  [d |-> mlow.d \o mhigh.d, c |-> mhigh.c]

NatMul(a, k) ==
    LET mall == MulR(a, k, 1, Len(a), 0)
    IN  Norm(mall.d \o NatD(mall.c))

\* -1, 0, 1 as a < b, a = b, a > b (both without leading zeros)
NatCmp(a, b) ==
    IF Len(a) < Len(b) THEN -1
    ELSE IF Len(a) > Len(b) THEN 1
    ELSE IF \A i \in 1..Len(a) : a[i] = b[i] THEN 0
    ELSE LET ctop == CHOOSE i \in 1..Len(a) :
                        a[i] # b[i] /\ \A j \in (i + 1)..Len(a) : a[j] = b[j]
         IN  IF a[ctop] < b[ctop] THEN -1 ELSE 1

\* a * 10^k
ShiftL(a, k) == IF a = <<>> THEN <<>> ELSE Zeros(k) \o a

\* a div 10^k
DropLow(a, k) == IF k >= Len(a) THEN <<>> ELSE SubSeq(a, k + 1, Len(a))

\* a mod 10^k # 0
LowNonZero(a, k) == \E i \in 1..Min(k, Len(a)) : a[i] # 0

\* The number of zero digits at the low end of a nonzero a
LowZeros(a) == (CHOOSE i \in 1..Len(a) : a[i] # 0 /\ \A j \in 1..(i - 1) : a[j] = 0) - 1

\* Long division of digits lo..hi by a small b > 0, with the remainder r
\* coming down from the digits above hi; the quotient digits come out most
\* significant first
RECURSIVE DivR(_, _, _, _, _)
DivR(a, b, lo, hi, r) ==
    IF lo > hi THEN [q |-> <<>>, r |-> r]
    ELSE IF lo = hi
    THEN [q |-> <<(r * 10 + a[lo]) \div b>>, r |-> (r * 10 + a[lo]) % b]
    ELSE LET dhigh == DivR(a, b, (lo + hi) \div 2 + 1, hi, r)
             dlow  == DivR(a, b, lo, (lo + hi) \div 2, dhigh.r)
         IN  [q |-> dhigh.q \o dlow.q, r |-> dlow.r]

Reverse(a) == [i \in 1..Len(a) |-> a[Len(a) + 1 - i]]

\* divmod(a, b)
DivRem(a, b) ==
    LET dall == DivR(a, b, 1, Len(a), 0)
    IN  [q |-> Reverse(dall.q), r |-> dall.r]

\* ---------------------------------------------------------------------
\* decimal.Decimal under the context of line 33
\* ---------------------------------------------------------------------
Dec(s, c, e) == [sign |-> s, coef |-> c, exp |-> e]

\* Decimal(n) for an int n
DecimalOfInt(n) == Dec(IF n < 0 THEN 1 ELSE 0, NatD(Abs(n)), 0)

\* Decimal('1e-' + str(k))
DecimalPow10(k) == Dec(0, <<1>>, -k)

DecNeg(d) == Dec(1 - d.sign, d.coef, d.exp)

\* Context rounding of a result to prec significant digits, ROUND_HALF_EVEN
Fix(d) ==
    IF Len(d.coef) <= prec THEN d
    ELSE LET fdrop  == Len(d.coef) - prec
             fkept  == SubSeq(d.coef, fdrop + 1, Len(d.coef))
             ffirst == d.coef[fdrop]
             frest  == LowNonZero(d.coef, fdrop - 1)
             fup    == \/ ffirst > 5
                       \/ (ffirst = 5 /\ frest)
                       \/ (ffirst = 5 /\ ~frest /\ fkept[1] % 2 = 1)
             fcoef  == IF fup THEN NatAdd(fkept, <<1>>) ELSE fkept
         IN  IF Len(fcoef) > prec
             THEN Dec(d.sign, Tail(fcoef), d.exp + fdrop + 1)
             ELSE Dec(d.sign, fcoef, d.exp + fdrop)

\* The exact sum of two decimals
ExactAdd(a, b) ==
    LET xexp == Min(a.exp, b.exp)
        xa   == ShiftL(a.coef, a.exp - xexp)
        xb   == ShiftL(b.coef, b.exp - xexp)
        xcmp == NatCmp(xa, xb)
    IN  IF a.sign = b.sign THEN Dec(a.sign, NatAdd(xa, xb), xexp)
        ELSE IF xcmp = 0 THEN Dec(0, <<>>, xexp)
        ELSE IF xcmp > 0 THEN Dec(a.sign, NatSub(xa, xb), xexp)
        ELSE Dec(b.sign, NatSub(xb, xa), xexp)

\* a + b
DecAdd(a, b) == Fix(ExactAdd(a, b))

\* a - b
DecSub(a, b) == Fix(ExactAdd(a, DecNeg(b)))

\* The exact product of two decimals, the first one an integer below 10^9
ExactMul(a, b) ==
    Dec((a.sign + b.sign) % 2, NatMul(b.coef, NatVal(a.coef)), a.exp + b.exp)

\* a * b
DecMul(a, b) == Fix(ExactMul(a, b))

\* An exact quotient keeps as few low zeros as the ideal exponent allows
StripTo(c, e, ideal) ==
    IF c = <<>> \/ e >= ideal THEN [coef |-> c, exp |-> e]
    ELSE [coef |-> DropLow(c, Min(LowZeros(c), ideal - e)),
          exp  |-> e + Min(LowZeros(c), ideal - e)]

\* a / b for integers a and b # 0 below 10^9: the quotient to prec + 1
\* digits with a sticky last digit, then rounded by the context
DecDiv(a, b) ==
    IF a.coef = <<>> THEN Dec((a.sign + b.sign) % 2, <<>>, a.exp - b.exp)
    ELSE LET vshift == Len(b.coef) - Len(a.coef) + prec + 1
             vdr    == DivRem(ShiftL(a.coef, vshift), NatVal(b.coef))
             vq     == Norm(vdr.q)
             vexp   == a.exp - b.exp - vshift
             vstrip == StripTo(vq, vexp, a.exp - b.exp)
         IN  IF vdr.r # 0
             THEN Fix(Dec((a.sign + b.sign) % 2,
                          IF vq = <<>> \/ vq[1] % 5 = 0
                          THEN NatAdd(vq, <<1>>) ELSE vq,
                          vexp))
             ELSE Fix(Dec((a.sign + b.sign) % 2, vstrip.coef, vstrip.exp))

\* d._rescale(e, ROUND_UP): ROUND_UP rounds away from zero
Rescale(d, e) ==
    IF d.coef = <<>> THEN Dec(d.sign, <<>>, e)
    ELSE IF d.exp >= e THEN Dec(d.sign, ShiftL(d.coef, d.exp - e), e)
    ELSE LET rkept    == DropLow(d.coef, e - d.exp)
             rchanged == LowNonZero(d.coef, e - d.exp)
         IN  Dec(d.sign, IF rchanged THEN NatAdd(rkept, <<1>>) ELSE rkept, e)

\* d.quantize(Decimal('1e-N'), rounding=ROUND_UP); raised stands for the
\* InvalidOperation of a result with more than prec digits
quantize(d, N) ==
    IF d.coef = <<>> THEN [raised |-> FALSE, val |-> Dec(d.sign, <<>>, -N)]
    ELSE IF (Len(d.coef) + d.exp - 1) + N + 1 > prec
         THEN [raised |-> TRUE, val |-> d]
    ELSE [raised |-> Len(Rescale(d, -N).coef) > prec, val |-> Rescale(d, -N)]

\* int(d): truncation toward zero
DecInt(d) ==
    IF d.sign = 1
    THEN -NatVal(IF d.exp >= 0 THEN ShiftL(d.coef, d.exp)
                 ELSE DropLow(d.coef, -d.exp))
    ELSE NatVal(IF d.exp >= 0 THEN ShiftL(d.coef, d.exp)
                ELSE DropLow(d.coef, -d.exp))

\* ---------------------------------------------------------------------
\* Python values
\* ---------------------------------------------------------------------
\* Optional[x]: None is the empty tuple, a value x the tuple <<x>>
None == <<>>

Some(pyval) == <<pyval>>

IsNone(o) == Len(o) = 0

\* An argument as the caller passes it: None, an int, or an object int()
\* rejects (a string such as 'abc')
PyNone == [kind |-> "none", val |-> 0]

PyInt(n) == [kind |-> "int", val |-> n]

PyStr == [kind |-> "str", val |-> 0]

\* int(x): the ValueError of an unconvertible x is raised
\* A conversion that yields 0 where int() raises
int_or_zero(pyval) == [raised |-> FALSE, val |-> pyval.val]

\* int(x): raises for a value that is no integer
int(pyval) == [raised |-> pyval.kind # "int", val |-> pyval.val]

\* ---------------------------------------------------------------------
\* calculate_safe_adjustment
\* ---------------------------------------------------------------------
\* What a call returns, with the steps it took: ret is the returned tuple
\* (factor, proof, valid); first_p and first_trial are the candidate of line
\* 93 and its truncated trial of line 96, trials the number of trials
\* computed, raised whether the except clause of line 104 was taken.
Outcome(factor, proof, valid, fp, ft, n, exc) ==
    [ret |-> <<factor, proof, valid>>, first_p |-> fp, first_trial |-> ft,
     trials |-> n, raised |-> exc]

Invalid(exc) == Outcome(None, None, FALSE, None, None, 0, exc)

\* Lines 83-103, for ints B # 0 and T
Solve(B, T, N) ==
    LET Bd          == DecimalOfInt(B)
        Td          == DecimalOfInt(T)
        q           == DecimalPow10(N)
        EPS         == DecimalPow10(N + 2)
        lower_bound == DecSub(DecDiv(Td, Bd), DecimalOfInt(1))
        cand1       == quantize(DecAdd(lower_bound, EPS), N)
        trial1      == DecMul(Bd, DecAdd(DecimalOfInt(1), cand1.val))
        cand2       == quantize(DecAdd(cand1.val, q), N)
        trial2      == DecMul(Bd, DecAdd(DecimalOfInt(1), cand2.val))
    IN  IF cand1.raised THEN Invalid(TRUE)
        ELSE IF DecInt(trial1) < DecInt(Td)
        THEN IF cand2.raised THEN Invalid(TRUE)
             ELSE Outcome(Some(cand2.val), Some(DecInt(trial2)),
                          DecInt(trial2) = T,
                          Some(cand1.val), Some(DecInt(trial1)), 2, FALSE)
        ELSE Outcome(Some(cand1.val), Some(DecInt(trial1)),
                     DecInt(trial1) = T,
                     Some(cand1.val), Some(DecInt(trial1)), 1, FALSE)

\* Lines 76-105
calculate_safe_adjustment(B, T, N) ==
    IF B.kind = "none" \/ T.kind = "none" THEN Invalid(FALSE)
    ELSE IF int(B).raised \/ int(T).raised THEN Invalid(TRUE)
    ELSE IF int(B).val = 0 THEN Invalid(FALSE)
    ELSE Solve(int(B).val, int(T).val, N)

\* ---------------------------------------------------------------------
\* The reconciliation driver
\* ---------------------------------------------------------------------
\* A spreadsheet cell: empty (NaN), text that is no number, or a number
NaNCell == [kind |-> "nan", val |-> Dec(0, <<>>, 0)]

TextCell == [kind |-> "text", val |-> Dec(0, <<>>, 0)]

NumCell(d) == [kind |-> "num", val |-> d]

\* safe_decimal_int: int(Decimal(str(x))), None for NaN and for the
\* exception of a cell that is no number
safe_decimal_int(cell) ==
    IF cell.kind = "num" THEN Some(DecInt(cell.val)) ELSE None

\* str.strip() on a string held as its sequence of characters
RECURSIVE LStrip(_)
LStrip(str) ==
    IF str # <<>> /\ Head(str) = " " THEN LStrip(Tail(str)) ELSE str

RECURSIVE RStrip(_)
RStrip(str) ==
    IF str # <<>> /\ str[Len(str)] = " "
    THEN RStrip(SubSeq(str, 1, Len(str) - 1)) ELSE str

strip(str) == RStrip(LStrip(str))

\* dict.get(key): None for a key the dict does not hold
get(dict, key) == IF key \in DOMAIN dict THEN dict[key] ELSE None

\* ---------------------------------------------------------------------
\* Bounds of the checked instances
\* ---------------------------------------------------------------------
MaxQty == 13

MaxSmallN == 2

PrecMargin == 1

MaxRows == 2

MaxSheets == 2

Quantities == (0 - MaxQty)..MaxQty

\* Argument values of a solver call: missing, not convertible, or an integer
Arguments == {PyNone, PyStr} \cup {PyInt(n) : n \in Quantities}

\* Decimal places of a solver call: small ones, the default, and those
\* around the fixed working precision
Places ==
    (1..MaxSmallN) \cup {DECIMAL_PLACES}
        \cup ((prec - PrecMargin - 1)..(prec + PrecMargin))

TickerCells == {<<" ">>, <<" ", "A", " ">>, <<"B">>}

QtyCells ==
    {NaNCell, TextCell, NumCell(Dec(0, <<5, 2>>, -1)),
     NumCell(Dec(1, <<2>>, 0))}

PrimaryTables == [{<<"A">>} -> {None, Some(0), Some(3), Some(-3)}]

SecondaryTables ==
    {<<>>,
     [code \in {<<"A">>, <<"B">>} |->
         IF code = <<"A">> THEN Some(3) ELSE None],
     [code \in {<<"A">>, <<"B">>} |->
         IF code = <<"A">> THEN None ELSE Some(3)]}

\* pc            where the program stands: before or after a solver call,
\*               between two sheets or inside the rows of a sheet
\* B, T, N       the arguments of the solver call
\* out           what the call returned, with the steps it went through
\* base_lookup, base_sec_lookup   ticker -> base quantity or None
\* sheet         number of sheets read
\* results, success_count         rows and successes of the current sheet
\* summary_stats one line per sheet that was processed
\* rows_seen     number of target rows read in the workbook
\* audit         history of the current sheet: for every row read, whether
\*               it was kept, the solver calls made for it with what they
\*               returned, and the two counts after it
VARIABLES pc, B, T, N, out,
          base_lookup, base_sec_lookup, sheet, results, success_count,
          summary_stats, rows_seen, audit

vars == <<pc, B, T, N, out, base_lookup, base_sec_lookup, sheet, results,
          success_count, summary_stats, rows_seen, audit>>

solver_vars == <<B, T, N, out>>

driver_vars == <<base_lookup, base_sec_lookup, sheet, results,
                 success_count, summary_stats, rows_seen, audit>>

\* ---------------------------------------------------------------------
\* One call of the solver
\* ---------------------------------------------------------------------
SolverInit ==
    /\ pc = "call"
    /\ B \in Arguments
    /\ T \in Arguments
    /\ N \in Places
    /\ out = Invalid(FALSE)
    /\ base_lookup = <<>>
    /\ base_sec_lookup = <<>>
    /\ sheet = 0
    /\ results = <<>>
    /\ success_count = 0
    /\ summary_stats = <<>>
    /\ rows_seen = 0
    /\ audit = <<>>

Call ==
    /\ pc = "call"
    /\ out' = calculate_safe_adjustment(B, T, N)
    /\ pc' = "returned"
    /\ UNCHANGED <<B, T, N>>
    /\ UNCHANGED driver_vars

SolverNext == Call

SolverSpec == SolverInit /\ [][SolverNext]_vars

\* ---------------------------------------------------------------------
\* The driver's loop over the sheets and the rows of a sheet
\* ---------------------------------------------------------------------
\* A lookup that never falls back to the secondary table
LookupPrimaryOnly(ticker) == get(base_lookup, ticker)

\* Base quantity of a ticker: the primary table, then the secondary one
LookupBase(ticker) ==
    IF IsNone(get(base_lookup, ticker))
    THEN get(base_sec_lookup, ticker)
    ELSE get(base_lookup, ticker)

\* A count that takes every solved row for a success
CountEverySolved(count, is_valid) == count + 1

\* success_count after a solved row
CountSuccess(count, is_valid) == IF is_valid THEN count + 1 ELSE count

StatusOf(is_valid) == IF is_valid THEN "OK" ELSE "FAIL"

\* float(adj_factor) if adj_factor else None: only whether a number is
\* written is kept, a Decimal zero being falsy
FactorCell(adj_factor) ==
    IF IsNone(adj_factor) \/ adj_factor[1].coef = <<>>
    THEN "None" ELSE "float"

Init ==
    /\ pc = "sheets"
    /\ B = PyNone
    /\ T = PyNone
    /\ N = DECIMAL_PLACES
    /\ out = Invalid(FALSE)
    /\ base_lookup \in PrimaryTables
    /\ base_sec_lookup \in SecondaryTables
    /\ sheet = 0
    /\ results = <<>>
    /\ success_count = 0
    /\ summary_stats = <<>>
    /\ rows_seen = 0
    /\ audit = <<>>

\* A sheet without a code or a quantity column is passed over
SkipSheet ==
    /\ pc = "sheets"
    /\ sheet < MaxSheets
    /\ sheet' = sheet + 1
    /\ UNCHANGED <<pc, base_lookup, base_sec_lookup, results, success_count,
                   summary_stats, rows_seen, audit>>
    /\ UNCHANGED solver_vars

BeginSheet ==
    /\ pc = "sheets"
    /\ sheet < MaxSheets
    /\ sheet' = sheet + 1
    /\ results' = <<>>
    /\ success_count' = 0
    /\ audit' = <<>>
    /\ pc' = "rows"
    /\ UNCHANGED <<base_lookup, base_sec_lookup, summary_stats, rows_seen>>
    /\ UNCHANGED solver_vars

\* A row with an empty ticker or without a readable target is skipped
SkipRow(code, qty) ==
    /\ pc = "rows"
    /\ rows_seen < MaxRows
    /\ strip(code) = <<>> \/ IsNone(safe_decimal_int(qty))
    /\ rows_seen' = rows_seen + 1
    /\ audit' = Append(audit, [kept |-> FALSE, calls |-> 0, base |-> None,
                               ret |-> <<None, None, FALSE>>,
                               at |-> Len(results), ok |-> success_count])
    /\ UNCHANGED <<pc, base_lookup, base_sec_lookup, sheet, results,
                   success_count, summary_stats>>
    /\ UNCHANGED solver_vars

\* A row whose ticker has no base quantity in either table
MissingBaseRow(code, qty) ==
    /\ pc = "rows"
    /\ rows_seen < MaxRows
    /\ ~ (strip(code) = <<>> \/ IsNone(safe_decimal_int(qty)))
    /\ IsNone(LookupBase(strip(code)))
    /\ results' = Append(results,
                         [Ticker |-> strip(code), Base_Qty |-> "N/A",
                          Target_Qty |-> safe_decimal_int(qty)[1],
                          Adjustment_Factor |-> "N/A",
                          Status |-> "MISSING_BASE"])
    /\ rows_seen' = rows_seen + 1
    /\ audit' = Append(audit, [kept |-> TRUE, calls |-> 0, base |-> None,
                               ret |-> <<None, None, FALSE>>,
                               at |-> Len(results) + 1,
                               ok |-> success_count])
    /\ UNCHANGED <<pc, base_lookup, base_sec_lookup, sheet, success_count,
                   summary_stats>>
    /\ UNCHANGED solver_vars

\* A row with a base quantity: the solver is called with the default N
SolvedRow(code, qty) ==
    /\ pc = "rows"
    /\ rows_seen < MaxRows
    /\ ~ (strip(code) = <<>> \/ IsNone(safe_decimal_int(qty)))
    /\ ~ IsNone(LookupBase(strip(code)))
    /\ LET base_qty == LookupBase(strip(code))[1]
           target_qty == safe_decimal_int(qty)[1]
           solved == calculate_safe_adjustment(PyInt(base_qty),
                                               PyInt(target_qty),
                                               DECIMAL_PLACES).ret
       IN /\ success_count' = CountSuccess(success_count, solved[3])
          /\ results' = Append(results,
                               [Ticker |-> strip(code),
                                Base_Qty |-> base_qty,
                                Target_Qty |-> target_qty,
                                Adjustment_Factor |-> FactorCell(solved[1]),
                                Proof_Check |-> solved[2],
                                Status |-> StatusOf(solved[3])])
          /\ audit' = Append(audit, [kept |-> TRUE, calls |-> 1,
                                     base |-> Some(base_qty), ret |-> solved,
                                     at |-> Len(results) + 1,
                                     ok |-> CountSuccess(success_count,
                                                         solved[3])])
    /\ rows_seen' = rows_seen + 1
    /\ UNCHANGED <<pc, base_lookup, base_sec_lookup, sheet, summary_stats>>
    /\ UNCHANGED solver_vars

\* The rows of the sheet are exhausted: its summary line is written
EndSheet ==
    /\ pc = "rows"
    /\ summary_stats' = Append(summary_stats,
                               [Portfolio |-> sheet,
                                Success |-> success_count,
                                Total |-> Len(results)])
    /\ pc' = "sheets"
    /\ UNCHANGED <<base_lookup, base_sec_lookup, sheet, results,
                   success_count, rows_seen, audit>>
    /\ UNCHANGED solver_vars

Next ==
    \/ SkipSheet
    \/ BeginSheet
    \/ \E code \in TickerCells, qty \in QtyCells : SkipRow(code, qty)
    \/ \E code \in TickerCells, qty \in QtyCells : MissingBaseRow(code, qty)
    \/ \E code \in TickerCells, qty \in QtyCells : SolvedRow(code, qty)
    \/ EndSheet

Spec == Init /\ [][Next]_vars

\* ---------------------------------------------------------------------
\* Exact arithmetic in which the properties of the solver are stated
\* ---------------------------------------------------------------------
\* b * (1 + p) without any rounding
Applied(b, p) == ExactMul(DecimalOfInt(b), ExactAdd(DecimalOfInt(1), p))

\* Truncation toward zero of an exact value
truncate(d) == DecInt(d)

\* -1, 0 or 1 as x is below, equal to or above y
Compare(x, y) ==
    LET diff == ExactAdd(x, DecNeg(y))
    IN  IF diff.coef = <<>> THEN 0 ELSE IF diff.sign = 1 THEN -1 ELSE 1

\* p >= t/b - 1 for b # 0, compared after multiplying by b
AtLeastLower(b, t, p) ==
    IF b > 0 THEN Compare(Applied(b, p), DecimalOfInt(t)) >= 0
    ELSE Compare(Applied(b, p), DecimalOfInt(t)) <= 0

\* b * (10^-n + 10^-(n+2)) <= 1, that is 101 * b <= 10^(n+2)
Fits(b, n) == NatCmp(NatD(101 * b), ShiftL(<<1>>, n + 2)) <= 0

Returned == pc = "returned"

IntArgs == B.kind = "int" /\ T.kind = "int"

HasFactor == ~ IsNone(out.ret[1])

NoResult == <<None, None, FALSE>>

\* C1: whenever a factor p is returned, the proof quantity is the exact
\* truncation toward zero of B * (1 + p), and valid is true exactly when
\* the proof quantity equals T.
C1_RoundTrip ==
    (Returned /\ IntArgs /\ HasFactor) =>
        /\ out.ret[2] = Some(truncate(Applied(B.val, out.ret[1][1])))
        /\ out.ret[3] <=> (out.ret[2] = Some(T.val))

\* C2: a returned valid factor is the smallest multiple of q that truncates
\* to T, so p - q does not; for B = T the factor is 0, the proof is B and
\* valid is true.
C2_Minimality ==
    (Returned /\ IntArgs /\ HasFactor) =>
        /\ out.ret[3] =>
              truncate(Applied(B.val, ExactAdd(out.ret[1][1],
                                               DecNeg(DecimalPow10(N)))))
                  # T.val
        /\ B.val = T.val =>
              /\ out.ret[1][1].coef = <<>>
              /\ out.ret[2] = Some(B.val)
              /\ out.ret[3]

\* C3: a missing B or T, a B or T that is no integer, and B = 0 all return
\* (none, none, false); an exception raised inside the call ends in that
\* same return value.
C3_InvalidInput ==
    Returned =>
        /\ (\/ B.kind # "int"
            \/ T.kind # "int"
            \/ B.val = 0) => out.ret = NoResult
        /\ out.raised => out.ret = NoResult

C3_Witness ==
    /\ Returned
    /\ B.kind = "int" /\ B.val # 0
    /\ T = PyStr
    /\ out.raised
    /\ out.ret = NoResult

\* C4: a returned factor is never below lower = T/B - 1.
C4_LowerBound ==
    (Returned /\ IntArgs /\ HasFactor) =>
        AtLeastLower(B.val, T.val, out.ret[1][1])

\* C5: a negative base never returns valid = true.
C5_NegativeBase ==
    (Returned /\ B.kind = "int" /\ B.val < 0) => ~ out.ret[3]

\* C7: the first candidate c is the smallest multiple of q at or above
\* v = lower + EPS: c >= v and c - q < v.
C7_Ceiling ==
    (Returned /\ IntArgs /\ ~ IsNone(out.first_p)) =>
        /\ AtLeastLower(B.val, T.val,
                        ExactAdd(out.first_p[1], DecNeg(DecimalPow10(N + 2))))
        /\ ~ AtLeastLower(B.val, T.val,
                          ExactAdd(ExactAdd(out.first_p[1],
                                            DecNeg(DecimalPow10(N))),
                                   DecNeg(DecimalPow10(N + 2))))

\* C8: a call with B # 0 computes one or two trials, the second one exactly
\* when the first trial is below T; the factor returned is then the first
\* candidate plus q, otherwise the first candidate; factor and proof are
\* returned in every case, with valid = (proof = T).
C8_SingleRetry ==
    (Returned /\ IntArgs /\ B.val # 0) =>
        /\ HasFactor
        /\ ~ IsNone(out.ret[2])
        /\ out.trials \in {1, 2}
        /\ out.trials = 2 <=> out.first_trial[1] < T.val
        /\ out.trials = 2 =>
              Compare(out.ret[1][1],
                      ExactAdd(out.first_p[1], DecimalPow10(N))) = 0
        /\ out.trials = 1 => out.ret[1] = out.first_p
        /\ out.ret[3] <=> (out.ret[2] = Some(T.val))

\* C10: for positive B and T with B * (10^-N + 10^-(N+2)) <= 1 the call
\* returns valid = true with proof = T; a factor with valid = false is
\* returned only when that bound fails or B or T is not positive.
C10_Sufficiency ==
    (Returned /\ IntArgs) =>
        /\ (B.val > 0 /\ T.val > 0 /\ Fits(B.val, N)) =>
              (out.ret[3] /\ out.ret[2] = Some(T.val))
        /\ (HasFactor /\ ~ out.ret[3]) =>
              (B.val <= 0 \/ T.val <= 0 \/ ~ Fits(B.val, N))

\* ---------------------------------------------------------------------
\* Properties of the driver
\* ---------------------------------------------------------------------
CountOK(rows) == Cardinality({i \in 1..Len(rows) : rows[i].Status = "OK"})

\* Rows of the sheet, among the first i read, that were not skipped
KeptUpTo(i) == Cardinality({j \in 1..i : audit[j].kept})

\* One row is recorded for every row that is not skipped, none for the others
OneStatusEach ==
    /\ Len(results) = KeptUpTo(Len(audit))
    /\ \A i \in 1..Len(audit) : audit[i].at = KeptUpTo(i)

\* What the claim and its amendment agree on for the i-th row read
Classified(i) ==
    LET row == results[audit[i].at]
    IN  /\ audit[i].calls <= 1
        /\ row.Status \in {"OK", "FAIL", "MISSING_BASE"}
        /\ row.Status = "OK" <=> (audit[i].calls = 1 /\ audit[i].ret[3])
        /\ row.Status = "MISSING_BASE" <=>
              (/\ IsNone(get(base_lookup, row.Ticker))
               /\ IsNone(get(base_sec_lookup, row.Ticker)))
        /\ row.Status = "MISSING_BASE" => audit[i].calls = 0

\* C6 as stated: every processed row gets one status from at most one call
\* of the solver; OK iff the solver returned valid = true, FAIL only with a
\* returned factor and proof and valid = false, MISSING_BASE iff neither
\* table holds a base quantity, the solver then not being called.
C6_AsStated ==
    /\ OneStatusEach
    /\ \A i \in 1..Len(audit) : audit[i].kept =>
          /\ Classified(i)
          /\ results[audit[i].at].Status = "FAIL" =>
                /\ audit[i].calls = 1
                /\ ~ IsNone(audit[i].ret[1])
                /\ ~ IsNone(audit[i].ret[2])
                /\ ~ audit[i].ret[3]

\* C6 amended: as above, but FAIL is recorded iff the solver was called and
\* returned valid = false, with a factor and proof or with (none, none,
\* false) as it does for a base quantity of 0.
C6_RowStatus ==
    /\ OneStatusEach
    /\ \A i \in 1..Len(audit) : audit[i].kept =>
          /\ Classified(i)
          /\ results[audit[i].at].Status = "FAIL" <=>
                (audit[i].calls = 1 /\ ~ audit[i].ret[3])

C6_Witness ==
    \E i \in 1..Len(audit) :
        /\ audit[i].kept
        /\ audit[i].calls = 1
        /\ audit[i].base = Some(0)
        /\ audit[i].ret = NoResult
        /\ results[audit[i].at].Status = "FAIL"

\* C9: in every sheet the success count is the number of rows recorded OK,
\* the summary line holds that count and the number of rows recorded, with
\* Success <= Total, and a skipped row changes neither count.
C9_SummaryCounts ==
    /\ success_count = CountOK(results)
    /\ Len(results) = KeptUpTo(Len(audit))
    /\ \A i \in 1..Len(audit) : ~ audit[i].kept =>
          /\ audit[i].at = (IF i = 1 THEN 0 ELSE audit[i - 1].at)
          /\ audit[i].ok = (IF i = 1 THEN 0 ELSE audit[i - 1].ok)
    /\ (pc = "sheets" /\ Len(summary_stats) > 0) =>
          /\ summary_stats[Len(summary_stats)].Success = CountOK(results)
          /\ summary_stats[Len(summary_stats)].Total = Len(results)
    /\ \A k \in 1..Len(summary_stats) :
          summary_stats[k].Success <= summary_stats[k].Total

C9_Witness ==
    /\ pc = "sheets"
    /\ Len(summary_stats) = 1
    /\ Len(audit) = 2
    /\ ~ audit[1].kept
    /\ summary_stats[1].Total = 1
    /\ summary_stats[1].Success = 1

====
